---- MODULE Spec2Model ----
\* State-machine model of BlockOverviewGraphComponent
\* (frontend/src/app/components/block-overview-graph/block-overview-graph.component.ts):
\* the frame scheduler, the WebGL context lifecycle, the pointer interaction layer,
\* the search/mirror highlights and the filter colour selection.
\*
\* One action per handler.  The collaborators that are not part of the component
\* (BlockScene, FastVertexArray, the browser's frame/timer queues and the WebGL context)
\* are modelled only through the calls the component makes on them.
EXTENDS Integers, Sequences, FiniteSets, TLC

\* ---------------------------------------------------------------- bounds
\* number of distinct transactions (each stands for a TxView with a 64-character txid)
MaxTx == 2
\* time is counted in multiples of the grace window; ticks see now in 1..MaxTime windows
MaxTime == 2
\* width, in bits, of the filter flag masks
FlagBits == 2
\* cap of the saturating count "setup calls that armed ready minus ready emissions"
MaxCredit == 2

\* ---------------------------------------------------------------- program constants
\* the grace window past scene.animateUntil (run, line 392)
Grace == 500

\* ---------------------------------------------------------------- values
TxName == <<"a", "b", "c", "d">>
TxIds == {TxName[i] : i \in 1..MaxTx}
TxIndex(t) == CHOOSE i \in 1..MaxTx : TxName[i] = t

\* JavaScript's two empty values; a slot of type "TxView | void" holds one of them or a view
Undef == "undefined"
Null == "null"
\* the null of a "bigint | null" slot
NoFlags == -1
Truthy(x) == x \notin {Undef, Null}

FlagVals == 0..(2^FlagBits - 1)
\* the flags of the transactions handed to the component: "a" carries none
FlagsOf(t) == (TxIndex(t) - 1) % (2^FlagBits)

Nows == {k * Grace : k \in 1..MaxTime}
Untils == {k * Grace : k \in 0..(MaxTime - 1)}

\* search texts: none yet, one that is not 64 characters long, or a 64-character txid
ShortText == "short"
SearchTexts == {Undef, ShortText} \cup TxIds

VARIABLES
  phase,                 \* lifecycle position: "constructed", "view", "destroyed"
  canvas,                \* the @ViewChild canvas exists
  webgl,                 \* canvas.getContext('webgl') yields a context
  gl,                    \* this.gl is non-null
  shaderProgram,         \* this.shaderProgram has been built by initCanvas
  running,               \* this.running
  animationFrameRequest, \* this.animationFrameRequest: "null", "live" (names a pending request), "stale"
  animationHeartBeat,    \* this.animationHeartBeat: "null", "live", "stale"
  rafPending,            \* number of animation-frame requests the browser holds for run()
  timeoutPending,        \* number of heartbeat timers the browser holds
  ctxState,              \* the browser's context: "none", "ok", "lost", "restored"
  ctxProgram,            \* the current context holds the linked program, in use
  ctxBound,              \* the current context has a buffer bound to ARRAY_BUFFER
  ctxData,               \* the bound buffer holds uploaded vertex data
  ctxPointers,           \* the attribute pointers are set on the bound buffer
  dirty,                 \* vertexArray.dirty
  scene,                 \* this.scene exists
  sceneTxs,              \* scene.txs: ids in the scene's index
  sceneHover,            \* views on which scene.setHover(.., true) is in force
  sceneHighlight,        \* views on which scene.setHighlight(.., true) is in force
  sceneColor,            \* the colour function installed in the scene
  sceneAnimateUntil,     \* scene.animateUntil
  hoverTx, selectedTx, highlightTx, mirrorTx,
  searchText,
  hoverEvent,            \* payload of the last txHoverEvent, "nothing" before the first
  filtersAvailable, filterFlags, activeFilterFlags, filterMode,
  readyNextFrame,
  readyCredit,           \* arming setup calls minus readyEvent emissions, saturating at MaxCredit
  fault,                 \* a handler threw
  last                   \* the handler that ran last and what it was given / issued

lifeVars == <<phase, canvas, webgl>>
schedVars == <<running, animationFrameRequest, rafPending>>
beatVars == <<animationHeartBeat, timeoutPending>>
gpuVars == <<gl, shaderProgram>>
ctxVars == <<ctxState, ctxProgram, ctxBound, ctxData, ctxPointers>>
sceneVars == <<scene, sceneTxs, sceneHover, sceneHighlight, sceneColor, sceneAnimateUntil>>
pointerVars == <<hoverTx, selectedTx, hoverEvent>>
searchVars == <<highlightTx, searchText>>
filterVars == <<filtersAvailable, filterFlags, activeFilterFlags, filterMode>>
readyVars == <<readyNextFrame, readyCredit>>

vars == <<lifeVars, schedVars, beatVars, gpuVars, ctxVars, dirty, sceneVars, pointerVars, searchVars,
          mirrorTx, filterVars, readyVars, fault, last>>

\* ---------------------------------------------------------------- history record
\* what the last handler was (op), what it was given (hit, now, flags), what it issued
\* (gpu, palette) and what it found when it was called (sel, hov, mir, raf, beat)
NoOps == <<>>
Did(op, hit, now, ops) ==
  [op |-> op, hit |-> hit, now |-> now, gpu |-> ops, flags |-> 0, palette |-> "none",
   sel |-> selectedTx, hov |-> hoverTx, mir |-> mirrorTx, raf |-> rafPending, beat |-> timeoutPending]
Op(op) == Did(op, Undef, 0, NoOps)

\* ---------------------------------------------------------------- colour functions
OverrideColor == [kind |-> "override", flags |-> 0]
FilterColor(f) == [kind |-> "filter", flags |-> f]

RECURSIVE BitAnd(_, _)
\* bigint & on non-negative values
BitAnd(x, y) ==
  IF x = 0 \/ y = 0 THEN 0
  ELSE (IF x % 2 = 1 /\ y % 2 = 1 THEN 1 ELSE 0) + 2 * BitAnd(x \div 2, y \div 2)

\* ---------------------------------------------------------------- frame scheduler
\* the scheduler fields as one value, so that a handler can call start() several times
SchedNow == [running |-> running, afr |-> animationFrameRequest, raf |-> rafPending]

\* cancelAnimationFrame(id): removes the request if the id still names a pending one
CancelFrame(afr, raf) == IF afr = "live" THEN raf - 1 ELSE raf

\* DoRun that requests a frame without cancelling the outstanding one
DoRunNoCancel(s) == [s EXCEPT !.raf = s.raf + 1, !.afr = "live"]

DoRun(s) ==
  [s EXCEPT !.raf = (IF s.afr # "null" THEN CancelFrame(s.afr, s.raf) ELSE s.raf) + 1,
            !.afr = "live"]

\* Start that sets the flag and requests no frame
StartFlagOnly(s) == [s EXCEPT !.running = TRUE]

Start(s) == DoRun([s EXCEPT !.running = TRUE])

RECURSIVE StartTimes(_, _)
\* n consecutive calls of start()
StartTimes(s, n) == IF n = 0 THEN s ELSE StartTimes(Start(s), n - 1)

SetSched(s) ==
  /\ running' = s.running
  /\ animationFrameRequest' = s.afr
  /\ rafPending' = s.raf

\* ---------------------------------------------------------------- scene collaborator
\* what a topology mutation of the scene leaves behind: the index, the hover flags of
\* the views that survive, a new animation horizon and a dirty vertex buffer
SceneMutate(txs, until) ==
  /\ sceneTxs' = txs
  /\ sceneHover' = sceneHover \cap txs
  /\ sceneAnimateUntil' = until
  /\ dirty' = TRUE

\* vertexArray.getVertexData().length: the buffer holds the sprites of the indexed views
PointArrayLength == Cardinality(sceneTxs)

\* ---------------------------------------------------------------- search highlight
UpdateSearchHighlight(hl, marks, text, sc, txs) ==
  IF Truthy(hl) /\ hl # text /\ sc
  THEN [highlightTx |-> hl, marks |-> marks \ {hl}, starts |-> 1]
  ELSE IF sc /\ text \in TxIds
       THEN LET found == IF text \in txs THEN text ELSE Undef
            IN [highlightTx |-> found,
                marks |-> IF Truthy(found) THEN marks \cup {found} ELSE marks,
                starts |-> IF Truthy(found) THEN 1 ELSE 0]
       ELSE [highlightTx |-> hl, marks |-> marks, starts |-> 0]

\* ---------------------------------------------------------------- filter colours
\* FilterMatches without the empty-mask case of 'or'
FilterMatchesNoEmptyMask(mode, txFlags, flags) ==
  \/ mode = "and" /\ BitAnd(txFlags, flags) = flags
  \/ mode = "or" /\ BitAnd(txFlags, flags) > 0

\* the test inside the function returned by getFilterColorFunction(flags)
FilterMatches(mode, txFlags, flags) ==
  \/ mode = "and" /\ BitAnd(txFlags, flags) = flags
  \/ mode = "or" /\ (flags = 0 \/ BitAnd(txFlags, flags) > 0)

\* the palette the installed colour function picks for a transaction with these flags
PaletteOf(color, mode, txFlags) ==
  IF color.kind = "filter"
  THEN IF FilterMatches(mode, txFlags, color.flags) THEN "default" ELSE "unmatched"
  ELSE "override"

\* the colour function setFilterFlags installs
FilterFlagsColor(active, available) ==
  IF active # NoFlags /\ available THEN FilterColor(active) ELSE OverrideColor

\* bigint truthiness: null and 0n are falsy
FlagsTruthy(f) == f # NoFlags /\ f # 0

GetColorFunction ==
  IF FlagsTruthy(filterFlags) THEN FilterColor(filterFlags)
  ELSE IF FlagsTruthy(activeFilterFlags) THEN FilterColor(activeFilterFlags)
  ELSE OverrideColor

\* ---------------------------------------------------------------- initial state
Init ==
  /\ phase = "constructed"
  /\ canvas \in BOOLEAN
  /\ webgl \in {w \in BOOLEAN : w => canvas}
  /\ gl = FALSE
  /\ shaderProgram = FALSE
  /\ running = FALSE
  /\ animationFrameRequest = "null"
  /\ animationHeartBeat = "null"
  /\ rafPending = 0
  /\ timeoutPending = 0
  /\ ctxState = "none"
  /\ ctxProgram = FALSE
  /\ ctxBound = FALSE
  /\ ctxData = FALSE
  /\ ctxPointers = FALSE
  /\ dirty \in BOOLEAN
  /\ scene = FALSE
  /\ sceneTxs = {}
  /\ sceneHover = {}
  /\ sceneHighlight = {}
  /\ sceneColor = OverrideColor
  /\ sceneAnimateUntil = 0
  /\ hoverTx = Undef
  /\ selectedTx = Undef
  /\ highlightTx = Undef
  /\ mirrorTx = Undef
  /\ searchText = Undef
  /\ hoverEvent = "nothing"
  /\ filtersAvailable = TRUE
  /\ filterFlags = NoFlags
  /\ activeFilterFlags = NoFlags
  /\ filterMode = "and"
  /\ readyNextFrame = FALSE
  /\ readyCredit = 0
  /\ fault = FALSE
  /\ last = Op("init")

\* ---------------------------------------------------------------- lifecycle
\* initCanvas(): program built and used, a fresh buffer created and bound, attributes
\* enabled, start().  On a lost context every call is a no-op.  The caller calls
\* start() another `more` times after initCanvas returns.
InitCanvas(more) ==
  IF canvas /\ gl'
  THEN /\ shaderProgram' = TRUE
       /\ ctxProgram' = (ctxState' # "lost")
       /\ ctxBound' = (ctxState' # "lost")
       /\ ctxData' = FALSE
       /\ ctxPointers' = FALSE
       /\ SetSched(StartTimes(Start(SchedNow), more))
  ELSE /\ UNCHANGED <<shaderProgram, ctxProgram, ctxBound, ctxData, ctxPointers>>
       /\ SetSched(StartTimes(SchedNow, more))

\* resizeCanvas(): resizes an existing scene or constructs it, and calls start()
ResizeScene ==
  IF scene
  THEN /\ dirty' = TRUE
       /\ UNCHANGED sceneVars
  ELSE /\ scene' = TRUE
       /\ sceneTxs' = {}
       /\ sceneHover' = {}
       /\ sceneHighlight' = {}
       /\ sceneColor' = GetColorFunction
       /\ sceneAnimateUntil' = 0
       /\ UNCHANGED dirty

NgAfterViewInit ==
  /\ phase = "constructed"
  /\ phase' = "view"
  /\ IF canvas
     THEN /\ gl' = webgl
          /\ ctxState' = IF webgl THEN "ok" ELSE "none"
          /\ IF webgl
             THEN /\ InitCanvas(1)
                  /\ ResizeScene
             ELSE /\ UNCHANGED <<shaderProgram, ctxProgram, ctxBound, ctxData, ctxPointers>>
                  /\ UNCHANGED <<schedVars, sceneVars, dirty>>
     ELSE UNCHANGED <<gpuVars, ctxVars, schedVars, sceneVars, dirty>>
  /\ last' = Op("ngAfterViewInit")
  /\ UNCHANGED <<canvas, webgl, beatVars, pointerVars, searchVars, mirrorTx, filterVars,
                 readyVars, fault>>

\* window:resize
ResizeCanvas ==
  /\ phase = "view"
  /\ IF canvas
     THEN /\ ResizeScene
          /\ SetSched(Start(SchedNow))
     ELSE UNCHANGED <<sceneVars, dirty, schedVars>>
  /\ last' = Op("resizeCanvas")
  /\ UNCHANGED <<lifeVars, beatVars, gpuVars, ctxVars, pointerVars, searchVars, mirrorTx,
                 filterVars, readyVars, fault>>

\* clearTimeout(id): removes the timer if the id still names a pending one
ClearBeat(beat, pending) == IF beat = "live" THEN pending - 1 ELSE pending

\* NgOnDestroy with the heartbeat left alone
NgOnDestroyFrameOnly ==
  /\ phase = "view"
  /\ phase' = "destroyed"
  /\ IF animationFrameRequest # "null"
     THEN /\ rafPending' = CancelFrame(animationFrameRequest, rafPending)
          /\ animationFrameRequest' = "stale"
     ELSE UNCHANGED <<rafPending, animationFrameRequest>>
  /\ last' = Op("ngOnDestroy")
  /\ UNCHANGED <<canvas, webgl, running, beatVars, gpuVars, ctxVars, dirty, sceneVars,
                 pointerVars, searchVars, mirrorTx, filterVars, readyVars, fault>>

NgOnDestroy ==
  /\ phase = "view"
  /\ phase' = "destroyed"
  /\ IF animationFrameRequest # "null"
     THEN /\ rafPending' = CancelFrame(animationFrameRequest, rafPending)
          /\ animationFrameRequest' = "stale"
          /\ timeoutPending' = ClearBeat(animationHeartBeat, timeoutPending)
          /\ animationHeartBeat' = IF animationHeartBeat = "null" THEN "null" ELSE "stale"
     ELSE UNCHANGED <<rafPending, animationFrameRequest, timeoutPending, animationHeartBeat>>
  /\ last' = Op("ngOnDestroy")
  /\ UNCHANGED <<canvas, webgl, running, gpuVars, ctxVars, dirty, sceneVars, pointerVars,
                 searchVars, mirrorTx, filterVars, readyVars, fault>>

\* ---------------------------------------------------------------- scene mutations
\* the common body of setup/enter/exit/replace/update once the scene exists:
\* scene.<op>(..); this.start(); this.updateSearchHighlight(); the handler calls
\* start() another `more` times
MutateAndStart(txs, until, more) ==
  LET found == UpdateSearchHighlight(highlightTx, sceneHighlight \cap txs, searchText, TRUE, txs)
  IN /\ SceneMutate(txs, until)
     /\ highlightTx' = found.highlightTx
     /\ sceneHighlight' = found.marks
     /\ SetSched(StartTimes(Start(SchedNow), found.starts + more))

\* setFilterFlags() as setup calls it (no goggle argument), before filtersAvailable is updated
SetupFilterFlags(changed) ==
  IF changed
  THEN /\ activeFilterFlags' = filterFlags
       /\ sceneColor' = IF scene THEN FilterFlagsColor(filterFlags, filtersAvailable)
                        ELSE sceneColor
  ELSE UNCHANGED <<activeFilterFlags, sceneColor>>

Setup(txs, until) ==
  LET available == \E t \in txs : FlagsOf(t) > 0
      changed == available # filtersAvailable
  IN /\ phase = "view"
     /\ SetupFilterFlags(changed)
     /\ filtersAvailable' = available
     /\ IF scene
        THEN /\ MutateAndStart(txs, until, IF changed THEN 1 ELSE 0)
             /\ readyNextFrame' = TRUE
             /\ readyCredit' = IF readyCredit < MaxCredit THEN readyCredit + 1 ELSE readyCredit
        ELSE /\ SetSched(StartTimes(SchedNow, IF changed THEN 1 ELSE 0))
             /\ UNCHANGED <<sceneTxs, sceneHover, sceneHighlight, sceneAnimateUntil, dirty,
                            highlightTx, readyVars>>
     /\ last' = Op("setup")
     /\ UNCHANGED <<lifeVars, beatVars, gpuVars, ctxVars, scene, pointerVars, searchText,
                    mirrorTx, filterFlags, filterMode, fault>>

\* the body shared by enter, exit, replace and update: a no-op without a scene
GuardedMutation(op, txs, until) ==
  /\ phase = "view"
  /\ IF scene
     THEN MutateAndStart(txs, until, 0)
     ELSE UNCHANGED <<sceneTxs, sceneHover, sceneHighlight, sceneAnimateUntil, dirty,
                      highlightTx, schedVars>>
  /\ last' = Op(op)
  /\ UNCHANGED <<lifeVars, beatVars, gpuVars, ctxVars, scene, sceneColor, pointerVars,
                 searchText, mirrorTx, filterVars, readyVars, fault>>

Enter(txs, until) == GuardedMutation("enter", sceneTxs \cup txs, until)

Exit(until) == GuardedMutation("exit", {}, until)

Replace(txs, until) == GuardedMutation("replace", txs, until)

Update(add, remove, until) == GuardedMutation("update", (sceneTxs \ remove) \cup add, until)

\* clear(direction): exit(direction), both pointer slots nulled, hover(null) emitted, start()
Clear(until) ==
  /\ phase = "view"
  /\ IF scene
     THEN MutateAndStart({}, until, 1)
     ELSE /\ SetSched(Start(SchedNow))
          /\ UNCHANGED <<sceneTxs, sceneHover, sceneHighlight, sceneAnimateUntil, dirty,
                         highlightTx>>
  /\ hoverTx' = Null
  /\ selectedTx' = Null
  /\ hoverEvent' = Null
  /\ last' = Op("clear")
  /\ UNCHANGED <<lifeVars, beatVars, gpuVars, ctxVars, scene, sceneColor, searchText,
                 mirrorTx, filterVars, readyVars, fault>>

\* destroy(): scene.destroy() and start(); the scene object is kept
Destroy ==
  /\ phase = "view"
  /\ IF scene
     THEN /\ sceneTxs' = {}
          /\ sceneHover' = {}
          /\ sceneHighlight' = {}
          /\ dirty' = TRUE
          /\ SetSched(Start(SchedNow))
     ELSE UNCHANGED <<sceneTxs, sceneHover, sceneHighlight, dirty, schedVars>>
  /\ last' = Op("destroy")
  /\ UNCHANGED <<lifeVars, beatVars, gpuVars, ctxVars, scene, sceneColor, sceneAnimateUntil,
                 pointerVars, searchVars, mirrorTx, filterVars, readyVars, fault>>

\* ---------------------------------------------------------------- the tick
\* TickOps with the ready emission not tied to readyNextFrame
TickOpsAlwaysReady ==
  IF scene /\ gl
  THEN <<"uniform">>
       \o (IF dirty
           THEN <<"pointers">> \o (IF PointArrayLength > 0 THEN <<"bufferData", "draw">> ELSE NoOps)
           ELSE (IF PointArrayLength > 0 THEN <<"draw">> ELSE NoOps))
       \o <<"ready">>
  ELSE NoOps

\* the GPU calls and the ready emission of one run(), in the order they are issued
TickOps ==
  IF scene /\ gl
  THEN <<"uniform">>
       \o (IF dirty
           THEN <<"pointers">> \o (IF PointArrayLength > 0 THEN <<"bufferData", "draw">> ELSE NoOps)
           ELSE (IF PointArrayLength > 0 THEN <<"draw">> ELSE NoOps))
       \o (IF readyNextFrame THEN <<"ready">> ELSE NoOps)
  ELSE NoOps

Issued(ops, op) == \E i \in 1..Len(ops) : ops[i] = op

\* KeepRunning with the grace window's last instant excluded
KeepRunningStrict(now) == running /\ scene /\ now < sceneAnimateUntil + Grace

\* the /* LOOP */ test of run()
KeepRunning(now) == running /\ scene /\ now <= sceneAnimateUntil + Grace

\* the browser hands the oldest pending frame request to run(); the component's handle
\* goes stale when that was the request it names
FrameTaken == [SchedNow EXCEPT !.raf = rafPending - 1,
                               !.afr = IF rafPending = 1 /\ animationFrameRequest = "live"
                                       THEN "stale" ELSE animationFrameRequest]

Run(now) ==
  /\ rafPending > 0
  /\ LET ops == TickOps
     IN /\ last' = Did("run", Undef, now, ops)
        /\ dirty' = IF scene /\ gl THEN FALSE ELSE dirty
        /\ ctxPointers' = IF Issued(ops, "pointers") THEN ctxBound ELSE ctxPointers
        /\ ctxData' = IF Issued(ops, "bufferData") THEN ctxBound ELSE ctxData
        /\ readyNextFrame' = IF Issued(ops, "ready") THEN FALSE ELSE readyNextFrame
        /\ readyCredit' = IF Issued(ops, "ready") /\ readyCredit >= 0
                          THEN readyCredit - 1 ELSE readyCredit
  /\ IF KeepRunning(now)
     THEN /\ SetSched(DoRun(FrameTaken))
          /\ UNCHANGED beatVars
     ELSE /\ SetSched(FrameTaken)
          /\ timeoutPending' = (IF animationHeartBeat # "null"
                                THEN ClearBeat(animationHeartBeat, timeoutPending)
                                ELSE timeoutPending) + 1
          /\ animationHeartBeat' = "live"
  /\ UNCHANGED <<lifeVars, gpuVars, ctxState, ctxProgram, ctxBound, sceneVars, pointerVars,
                 searchVars, mirrorTx, filterVars, fault>>

\* HeartBeat whose callback does not call start()
HeartBeatNoStart ==
  /\ timeoutPending > 0
  /\ timeoutPending' = timeoutPending - 1
  /\ animationHeartBeat' = IF timeoutPending = 1 /\ animationHeartBeat = "live"
                           THEN "stale" ELSE animationHeartBeat
  /\ last' = Op("heartbeat")
  /\ UNCHANGED <<lifeVars, schedVars, gpuVars, ctxVars, dirty, sceneVars, pointerVars,
                 searchVars, mirrorTx, filterVars, readyVars, fault>>

\* the idle heartbeat fires: start()
HeartBeat ==
  /\ timeoutPending > 0
  /\ timeoutPending' = timeoutPending - 1
  /\ animationHeartBeat' = IF timeoutPending = 1 /\ animationHeartBeat = "live"
                           THEN "stale" ELSE animationHeartBeat
  /\ SetSched(Start(SchedNow))
  /\ last' = Op("heartbeat")
  /\ UNCHANGED <<lifeVars, gpuVars, ctxVars, dirty, sceneVars, pointerVars, searchVars,
                 mirrorTx, filterVars, readyVars, fault>>

\* ---------------------------------------------------------------- context loss
\* The two handlers are registered unbound (ngAfterViewInit, lines 99-100):
\* addEventListener calls them with `this` set to the canvas element, not the component.
ListenerThis == "canvas"

\* handleContextLost with the given receiver; on the canvas element the three
\* assignments create properties of the element and cancelAnimationFrame(undefined)
\* cancels nothing
HandleContextLost(self) ==
  IF self = "component"
  THEN /\ rafPending' = CancelFrame(animationFrameRequest, rafPending)
       /\ animationFrameRequest' = "null"
       /\ running' = FALSE
       /\ gl' = FALSE
  ELSE UNCHANGED <<rafPending, animationFrameRequest, running, gl>>

\* handleContextRestored with the given receiver; the canvas element has no `canvas`
\* property, so this.canvas?.nativeElement is undefined there
HandleContextRestored(self) ==
  IF self = "component" /\ canvas
  THEN /\ gl' = webgl
       /\ InitCanvas(0)
  ELSE UNCHANGED <<gl, shaderProgram, ctxProgram, ctxBound, ctxData, ctxPointers, schedVars>>

\* the browser loses the context: every GPU resource of it is gone
ContextLost ==
  /\ phase = "view"
  /\ ctxState \in {"ok", "restored"}
  /\ ctxState' = "lost"
  /\ ctxProgram' = FALSE
  /\ ctxBound' = FALSE
  /\ ctxData' = FALSE
  /\ ctxPointers' = FALSE
  /\ HandleContextLost(ListenerThis)
  /\ last' = Op("contextLost")
  /\ UNCHANGED <<lifeVars, beatVars, shaderProgram, dirty, sceneVars, pointerVars,
                 searchVars, mirrorTx, filterVars, readyVars, fault>>

ContextRestored ==
  /\ phase = "view"
  /\ ctxState = "lost"
  /\ ctxState' = "restored"
  /\ HandleContextRestored(ListenerThis)
  /\ last' = Op("contextRestored")
  /\ UNCHANGED <<lifeVars, beatVars, dirty, sceneVars, pointerVars, searchVars, mirrorTx,
                 filterVars, readyVars, fault>>

\* ---------------------------------------------------------------- pointer interaction
\* scene.getTxAt(point): a view of the index, or null
Hits == IF scene THEN sceneTxs \cup {Null} ELSE {Null}
\* the hit test at the off-canvas point (-1, -1) finds nothing
OffCanvasHit == Null

\* Demote with the view dropped instead of kept as the hover
DemoteToNone(keep) ==
  [keep EXCEPT !.hoverTx = Null, !.selectedTx = Null, !.event = Null]

\* Demote without the hover notification
DemoteSilently(keep) ==
  [keep EXCEPT !.hoverTx = selectedTx, !.selectedTx = Null]

\* the commit on the already selected view: it goes back to the hover slot
Demote(keep) ==
  [keep EXCEPT !.hoverTx = selectedTx, !.selectedTx = Null,
               !.event = IF Truthy(selectedTx) THEN selectedTx ELSE Null]

\* SetPreviewTx that leaves the hover flag of the old preview set
SetPreviewTxNoUnset(selected, clicked) ==
  LET currentPreview == IF Truthy(selectedTx) THEN selectedTx ELSE hoverTx
      keep == [hoverTx |-> hoverTx, selectedTx |-> selectedTx, hover |-> sceneHover,
               event |-> hoverEvent, starts |-> 0]
  IN IF ~(scene /\ (~Truthy(selectedTx) \/ clicked)) THEN keep
     ELSE IF selected # currentPreview
     THEN IF Truthy(selected)
          THEN [hoverTx |-> IF clicked THEN hoverTx ELSE selected,
                selectedTx |-> IF clicked THEN selected ELSE selectedTx,
                hover |-> sceneHover \cup {selected},
                event |-> IF clicked THEN hoverEvent ELSE selected,
                starts |-> 1]
          ELSE [hoverTx |-> Null,
                selectedTx |-> IF clicked THEN Null ELSE selectedTx,
                hover |-> sceneHover,
                event |-> Null,
                starts |-> 0]
     ELSE IF clicked
     THEN IF selected = selectedTx
          THEN Demote(keep)
          ELSE [keep EXCEPT !.selectedTx = selected]
     ELSE keep

\* setPreviewTx with `selected` the result of the hit test: the new slots, hover flags
\* and hover event, and the number of start() calls
SetPreviewTx(selected, clicked) ==
  LET currentPreview == IF Truthy(selectedTx) THEN selectedTx ELSE hoverTx
      keep == [hoverTx |-> hoverTx, selectedTx |-> selectedTx, hover |-> sceneHover,
               event |-> hoverEvent, starts |-> 0]
      unset == Truthy(currentPreview) /\ scene
      cleared == IF unset THEN sceneHover \ {currentPreview} ELSE sceneHover
      n == IF unset THEN 1 ELSE 0
  IN IF ~(scene /\ (~Truthy(selectedTx) \/ clicked)) THEN keep
     ELSE IF selected # currentPreview
     THEN IF Truthy(selected)
          THEN [hoverTx |-> IF clicked THEN hoverTx ELSE selected,
                selectedTx |-> IF clicked THEN selected ELSE selectedTx,
                hover |-> cleared \cup {selected},
                event |-> IF clicked THEN hoverEvent ELSE selected,
                starts |-> n + 1]
          ELSE [hoverTx |-> Null,
                selectedTx |-> IF clicked THEN Null ELSE selectedTx,
                hover |-> cleared,
                event |-> Null,
                starts |-> n]
     ELSE IF clicked
     THEN IF selected = selectedTx
          THEN Demote(keep)
          ELSE [keep EXCEPT !.selectedTx = selected]
     ELSE keep

\* Preview with the hover notification left out
PreviewNoEvent(r) ==
  /\ hoverTx' = r.hoverTx
  /\ selectedTx' = r.selectedTx
  /\ sceneHover' = r.hover
  /\ hoverEvent' = hoverEvent
  /\ dirty' = (dirty \/ r.hover # sceneHover)
  /\ SetSched(StartTimes(SchedNow, r.starts))

\* the assignments a setPreviewTx call makes
Preview(r) ==
  /\ hoverTx' = r.hoverTx
  /\ selectedTx' = r.selectedTx
  /\ sceneHover' = r.hover
  /\ hoverEvent' = r.event
  /\ dirty' = (dirty \/ r.hover # sceneHover)
  /\ SetSched(StartTimes(SchedNow, r.starts))

NoPreview == UNCHANGED <<hoverTx, selectedTx, sceneHover, hoverEvent, dirty, schedVars>>

\* pointerup: a touch on the canvas commits; any other pointer on the canvas only emits
\* txClickEvent (onTxClick), which changes no state
OnClick(onCanvas, touch, hit) ==
  /\ phase = "view"
  /\ IF canvas /\ onCanvas /\ touch
     THEN /\ Preview(SetPreviewTx(hit, TRUE))
          /\ last' = Did("commit", hit, 0, NoOps)
     ELSE /\ NoPreview
          /\ last' = Did(IF canvas /\ onCanvas THEN "click" ELSE "pointerup", hit, 0, NoOps)
  /\ UNCHANGED <<lifeVars, beatVars, gpuVars, ctxVars, scene, sceneTxs, sceneHighlight,
                 sceneColor, sceneAnimateUntil, searchVars, mirrorTx, filterVars, readyVars,
                 fault>>

\* onPointerLeave(event)
LeaveResult(touch) == IF touch THEN "leaveTouch" ELSE "leave"

\* PointerLeft with the hit test run as a hover update instead of a commit
PointerLeftAsHover(touch) ==
  /\ IF touch THEN NoPreview ELSE Preview(SetPreviewTx(OffCanvasHit, FALSE))
  /\ last' = Did(LeaveResult(touch), OffCanvasHit, 0, NoOps)

PointerLeft(touch) ==
  /\ IF touch THEN NoPreview ELSE Preview(SetPreviewTx(OffCanvasHit, TRUE))
  /\ last' = Did(LeaveResult(touch), OffCanvasHit, 0, NoOps)

OnPointerLeave(touch) ==
  /\ phase = "view"
  /\ PointerLeft(touch)
  /\ UNCHANGED <<lifeVars, beatVars, gpuVars, ctxVars, scene, sceneTxs, sceneHighlight,
                 sceneColor, sceneAnimateUntil, searchVars, mirrorTx, filterVars, readyVars,
                 fault>>

\* pointermove: on the canvas a hover update, anywhere else onPointerLeave(event)
OnPointerMove(onCanvas, touch, hit) ==
  /\ phase = "view"
  /\ canvas
  /\ IF onCanvas
     THEN /\ Preview(SetPreviewTx(hit, FALSE))
          /\ last' = Did("move", hit, 0, NoOps)
     ELSE PointerLeft(touch)
  /\ UNCHANGED <<lifeVars, beatVars, gpuVars, ctxVars, scene, sceneTxs, sceneHighlight,
                 sceneColor, sceneAnimateUntil, searchVars, mirrorTx, filterVars, readyVars,
                 fault>>

\* ClickAway with the selection left in place
ClickAwayHoverOnly(outside) ==
  /\ phase = "view"
  /\ IF outside
     THEN LET unset == Truthy(hoverTx) /\ scene
          IN /\ sceneHover' = IF unset THEN sceneHover \ {hoverTx} ELSE sceneHover
             /\ dirty' = (dirty \/ sceneHover' # sceneHover)
             /\ SetSched(StartTimes(SchedNow, IF unset THEN 1 ELSE 0))
             /\ hoverTx' = Null
             /\ selectedTx' = selectedTx
             /\ hoverEvent' = Null
     ELSE NoPreview
  /\ last' = Op(IF outside THEN "clickAway" ELSE "clickInside")
  /\ UNCHANGED <<lifeVars, beatVars, gpuVars, ctxVars, scene, sceneTxs, sceneHighlight,
                 sceneColor, sceneAnimateUntil, searchVars, mirrorTx, filterVars, readyVars,
                 fault>>

\* document:click
ClickAway(outside) ==
  /\ phase = "view"
  /\ IF outside
     THEN LET currentPreview == IF Truthy(selectedTx) THEN selectedTx ELSE hoverTx
              unset == Truthy(currentPreview) /\ scene
          IN /\ sceneHover' = IF unset THEN sceneHover \ {currentPreview} ELSE sceneHover
             /\ dirty' = (dirty \/ sceneHover' # sceneHover)
             /\ SetSched(StartTimes(SchedNow, IF unset THEN 1 ELSE 0))
             /\ hoverTx' = Null
             /\ selectedTx' = Null
             /\ hoverEvent' = Null
     ELSE NoPreview
  /\ last' = Op(IF outside THEN "clickAway" ELSE "clickInside")
  /\ UNCHANGED <<lifeVars, beatVars, gpuVars, ctxVars, scene, sceneTxs, sceneHighlight,
                 sceneColor, sceneAnimateUntil, searchVars, mirrorTx, filterVars, readyVars,
                 fault>>

\* ---------------------------------------------------------------- mirror
MirrorIds == {Undef} \cup TxIds

\* SetMirrorResult with the previous mirror left highlighted
SetMirrorKeepsPrevious(txid) ==
  LET throws == (Truthy(mirrorTx) \/ Truthy(txid)) /\ ~scene
      found == Truthy(txid) /\ scene /\ txid \in sceneTxs
  IN [throws |-> throws,
      mirrorTx |-> IF found THEN txid ELSE mirrorTx,
      hover |-> IF found THEN sceneHover \cup {txid} ELSE sceneHover,
      starts |-> IF found THEN 1 ELSE 0]

\* setMirror(txid): this.scene is dereferenced without a guard, so a call that reaches
\* either dereference while the scene is missing throws
SetMirrorResult(txid) ==
  LET unset == Truthy(mirrorTx)
      throws == (unset \/ Truthy(txid)) /\ ~scene
      found == Truthy(txid) /\ scene /\ txid \in sceneTxs
      cleared == IF unset THEN sceneHover \ {mirrorTx} ELSE sceneHover
  IN [throws |-> throws,
      mirrorTx |-> IF found THEN txid ELSE mirrorTx,
      hover |-> IF throws THEN sceneHover ELSE IF found THEN cleared \cup {txid} ELSE cleared,
      starts |-> IF throws THEN 0 ELSE (IF unset THEN 1 ELSE 0) + (IF found THEN 1 ELSE 0)]

SetMirror(txid) ==
  /\ phase = "view"
  /\ LET r == SetMirrorResult(txid)
     IN /\ mirrorTx' = r.mirrorTx
        /\ sceneHover' = r.hover
        /\ dirty' = (dirty \/ r.starts > 0)
        /\ fault' = (fault \/ r.throws)
        /\ SetSched(StartTimes(SchedNow, r.starts))
  /\ last' = Did("setMirror", txid, 0, NoOps)
  /\ UNCHANGED <<lifeVars, beatVars, gpuVars, ctxVars, scene, sceneTxs, sceneHighlight,
                 sceneColor, sceneAnimateUntil, pointerVars, searchVars, filterVars, readyVars>>

\* ---------------------------------------------------------------- inputs
\* setFilterFlags(goggle) with a goggle {mode, filters}: toFlags(filters) is the mask
SetFilterFlags(mode, flags) ==
  /\ phase = "view"
  /\ filterMode' = mode
  /\ activeFilterFlags' = flags
  /\ sceneColor' = IF scene THEN FilterFlagsColor(flags, filtersAvailable) ELSE sceneColor
  /\ dirty' = (dirty \/ scene)
  /\ SetSched(Start(SchedNow))
  /\ last' = Op("setFilterFlags")
  /\ UNCHANGED <<lifeVars, beatVars, gpuVars, ctxVars, scene, sceneTxs, sceneHover,
                 sceneHighlight, sceneAnimateUntil, pointerVars, searchVars, mirrorTx,
                 filtersAvailable, filterFlags, readyVars, fault>>

\* setHighlightingEnabled(enabled): scene.setHighlighting recolours the views
SetHighlightingEnabled ==
  /\ phase = "view"
  /\ IF scene
     THEN /\ dirty' = TRUE
          /\ SetSched(Start(SchedNow))
     ELSE UNCHANGED <<dirty, schedVars>>
  /\ last' = Op("setHighlightingEnabled")
  /\ UNCHANGED <<lifeVars, beatVars, gpuVars, ctxVars, sceneVars, pointerVars, searchVars,
                 mirrorTx, filterVars, readyVars, fault>>

ChangeKeys == {"mirrorTxid", "auditHighlighting", "filter"}

\* ngOnChanges(changes): the inputs named in `keys` were assigned (mirrorTxid = txid,
\* filterFlags = flags, filterMode = mode) and the handler runs its branches in order;
\* a throw in setMirror abandons the rest.  The orientation branch only calls
\* scene.setOrientation, and changes.overrideColor names no input of the component.
NgOnChanges(keys, txid, flags, mode) ==
  /\ phase \in {"constructed", "view"}
  /\ LET m == IF "mirrorTxid" \in keys THEN SetMirrorResult(txid)
              ELSE [throws |-> FALSE, mirrorTx |-> mirrorTx, hover |-> sceneHover, starts |-> 0]
         audit == ~m.throws /\ "auditHighlighting" \in keys /\ scene
         filter == ~m.throws /\ "filter" \in keys
         newFlags == IF "filter" \in keys THEN flags ELSE filterFlags
         newMode == IF "filter" \in keys THEN mode ELSE filterMode
     IN /\ filterFlags' = newFlags
        /\ filterMode' = newMode
        /\ mirrorTx' = m.mirrorTx
        /\ sceneHover' = m.hover
        /\ fault' = (fault \/ m.throws)
        /\ activeFilterFlags' = IF filter THEN newFlags ELSE activeFilterFlags
        /\ sceneColor' = IF filter /\ scene THEN FilterFlagsColor(newFlags, filtersAvailable)
                         ELSE sceneColor
        /\ dirty' = (dirty \/ m.starts > 0 \/ audit \/ (filter /\ scene))
        /\ SetSched(StartTimes(SchedNow, m.starts + (IF audit THEN 1 ELSE 0)
                                                  + (IF filter THEN 1 ELSE 0)))
  /\ last' = Did("ngOnChanges", txid, 0, NoOps)
  /\ UNCHANGED <<lifeVars, beatVars, gpuVars, ctxVars, scene, sceneTxs, sceneHighlight,
                 sceneAnimateUntil, pointerVars, searchVars, filtersAvailable, readyVars>>

\* the searchText$ subscription of the constructor; it is never unsubscribed
SearchText(text) ==
  /\ searchText' = text
  /\ LET found == UpdateSearchHighlight(highlightTx, sceneHighlight, text, scene, sceneTxs)
     IN /\ highlightTx' = found.highlightTx
        /\ sceneHighlight' = found.marks
        /\ dirty' = (dirty \/ found.starts > 0)
        /\ SetSched(StartTimes(SchedNow, found.starts))
  /\ last' = Did("searchText", text, 0, NoOps)
  /\ UNCHANGED <<lifeVars, beatVars, gpuVars, ctxVars, scene, sceneTxs, sceneHover,
                 sceneColor, sceneAnimateUntil, pointerVars, mirrorTx, filterVars, readyVars,
                 fault>>

\* the scene evaluates its colour function for a view whose bigintFlags are txFlags;
\* the filter function reads this.filterMode when it is called
ApplyColor(txFlags) ==
  /\ scene
  /\ last' = [Op("color") EXCEPT !.flags = txFlags,
                                 !.palette = PaletteOf(sceneColor, filterMode, txFlags)]
  /\ UNCHANGED <<lifeVars, schedVars, beatVars, gpuVars, ctxVars, dirty, sceneVars,
                 pointerVars, searchVars, mirrorTx, filterVars, readyVars, fault>>

\* ---------------------------------------------------------------- specifications
Hosts ==
  \/ \E txs \in SUBSET TxIds, until \in Untils : Setup(txs, until)
  \/ \E txs \in SUBSET TxIds, until \in Untils : Enter(txs, until)
  \/ \E until \in Untils : Exit(until)
  \/ \E txs \in SUBSET TxIds, until \in Untils : Replace(txs, until)
  \/ \E add \in SUBSET TxIds, remove \in SUBSET TxIds, until \in Untils : Update(add, remove, until)
  \/ \E until \in Untils : Clear(until)
  \/ Destroy

Timers ==
  \/ \E now \in Nows : Run(now)
  \/ HeartBeat

Lifecycle ==
  \/ NgAfterViewInit
  \/ ResizeCanvas
  \/ NgOnDestroy

Context ==
  \/ ContextLost
  \/ ContextRestored

Pointer ==
  \/ \E onCanvas \in BOOLEAN, touch \in BOOLEAN :
        \E hit \in (IF onCanvas THEN Hits ELSE {Null}) : OnClick(onCanvas, touch, hit)
  \/ \E onCanvas \in BOOLEAN, touch \in BOOLEAN :
        \E hit \in (IF onCanvas THEN Hits ELSE {Null}) : OnPointerMove(onCanvas, touch, hit)
  \/ \E touch \in BOOLEAN : OnPointerLeave(touch)
  \/ \E outside \in BOOLEAN : ClickAway(outside)

Inputs ==
  \/ \E txid \in MirrorIds : SetMirror(txid)
  \/ \E mode \in {"and", "or"}, flags \in FlagVals : SetFilterFlags(mode, flags)
  \/ SetHighlightingEnabled
  \/ \E keys \in SUBSET ChangeKeys, txid \in MirrorIds, flags \in FlagVals \cup {NoFlags},
        mode \in {"and", "or"} : NgOnChanges(keys, txid, flags, mode)
  \/ \E text \in SearchTexts : SearchText(text)
  \/ \E txFlags \in FlagVals : ApplyColor(txFlags)

Next == Lifecycle \/ Hosts \/ Timers \/ Context \/ Pointer \/ Inputs

Spec == Init /\ [][Next]_vars

\* The claims are checked under three parts of Next, each the handlers that write the
\* state a group of claims is about, with the inputs the other parts ignore held fixed.

\* the interaction layer: the pointer handlers over a scene the host fills and clears
\* (the animation horizon plays no part here)
NextPointer ==
  \/ NgAfterViewInit
  \/ ResizeCanvas
  \/ \E txs \in SUBSET TxIds : Setup(txs, 0)
  \/ Clear(0)
  \/ \E txid \in MirrorIds : SetMirror(txid)
  \/ Pointer

SpecPointer == Init /\ [][NextPointer]_vars

\* the transaction lists that differ in whether any transaction carries a flag, and in
\* whether the scene is left empty
EmptyUnflaggedFull == {{}, {TxName[1]}, TxIds}

\* the filter colouring: the inputs, setup and the scene's colour evaluation
NextFilter ==
  \/ NgAfterViewInit
  \/ ResizeCanvas
  \/ \E txs \in EmptyUnflaggedFull : Setup(txs, 0)
  \/ \E mode \in {"and", "or"}, flags \in FlagVals : SetFilterFlags(mode, flags)
  \/ \E flags \in FlagVals \cup {NoFlags}, mode \in {"and", "or"} :
        NgOnChanges({"filter"}, Undef, flags, mode)
  \/ \E txFlags \in FlagVals : ApplyColor(txFlags)

SpecFilter == Init /\ [][NextFilter]_vars

\* the frame scheduler and the context lifecycle under the host's scene mutations; the
\* tick only asks whether the scene holds any sprite
EmptyOrFull == {{}, TxIds}

SchedHosts ==
  \/ \E txs \in EmptyOrFull, until \in Untils : Setup(txs, until)
  \/ \E txs \in EmptyOrFull, until \in Untils : Enter(txs, until)
  \/ \E until \in Untils : Exit(until)
  \/ \E txs \in EmptyOrFull, until \in Untils : Replace(txs, until)
  \/ \E add \in EmptyOrFull, remove \in EmptyOrFull, until \in Untils : Update(add, remove, until)
  \/ \E until \in Untils : Clear(until)
  \/ Destroy

NextSched == Lifecycle \/ SchedHosts \/ Timers \/ Context

SpecSched == Init /\ [][NextSched]_vars

\* ================================================================ claims

\* ---------------------------------------------------------------- C1
\* C1: toggle-select law of a commit (setPreviewTx with clicked = true) that hits a
\* transaction X: with no selection it sets selectedTx = X; with X selected it sets
\* selectedTx = none and hoverTx = X and leaves the hover flags as they are; with another
\* transaction selected it sets selectedTx = X, unsets the old one's hover flag and sets X's.
C1_Commit(X) ==
  /\ ~Truthy(selectedTx) => selectedTx' = X
  /\ selectedTx = X =>
       /\ ~Truthy(selectedTx')
       /\ hoverTx' = X
       /\ sceneHover' = sceneHover
  /\ Truthy(selectedTx) /\ selectedTx # X =>
       /\ selectedTx' = X
       /\ selectedTx \notin sceneHover'
       /\ X \in sceneHover'

C1_ToggleSelect ==
  [][last'.op = "commit" /\ Truthy(last'.hit) => C1_Commit(last'.hit)]_vars

\* a second commit on the selected view has happened: it is the hover, highlighted
C1_Witness ==
  /\ last.op = "commit"
  /\ last.sel = last.hit
  /\ hoverTx = last.hit
  /\ Truthy(hoverTx)
  /\ ~Truthy(selectedTx)
  /\ hoverEvent = hoverTx
  /\ hoverTx \in sceneHover

\* ---------------------------------------------------------------- C2
\* C2 as stated: a non-touch pointer-leave with selectedTx = X leaves selectedTx = X
\* and X's hover flag set.
C2_LeaveKeepsSelection ==
  [][last'.op = "leave" /\ Truthy(selectedTx) =>
       /\ selectedTx' = selectedTx
       /\ (selectedTx \in sceneHover => selectedTx \in sceneHover')]_vars

\* C2, amended: a non-touch pointer-leave with selectedTx = X clears the selection and
\* the hover, unsets X's hover flag and emits hover(none); a touch pointer-leave changes
\* neither slot nor any hover flag.
C2_LeaveClearsSelection ==
  [][/\ last'.op = "leave" /\ Truthy(selectedTx) =>
          /\ selectedTx' = Null
          /\ hoverTx' = Null
          /\ selectedTx \notin sceneHover'
          /\ hoverEvent' = Null
     /\ last'.op = "leaveTouch" =>
          UNCHANGED <<selectedTx, hoverTx, sceneHover, hoverEvent>>]_vars

\* a non-touch leave has cleared a selection and its highlight
C2_Witness ==
  /\ last.op = "leave"
  /\ Truthy(last.sel)
  /\ last.sel \in sceneTxs
  /\ selectedTx = Null
  /\ hoverTx = Null
  /\ hoverEvent = Null
  /\ sceneHover = {}
  /\ dirty

\* ---------------------------------------------------------------- C3
\* C3: after setup or setFilterFlags with a scene present, a filter colour function is
\* installed only if filtersAvailable is true, and the override colour function is
\* installed whenever filtersAvailable is false.
C3_FilterOnlyWhenAvailable ==
  last.op \in {"setup", "setFilterFlags"} /\ scene =>
    /\ sceneColor.kind = "filter" => filtersAvailable
    /\ ~filtersAvailable => sceneColor = OverrideColor

\* ---------------------------------------------------------------- C4
\* the bit positions set in a mask
Bits(n) == {i \in 0..(FlagBits - 1) : (n \div (2^i)) % 2 = 1}

\* C4: the installed filter function picks the default palette for flags T under mask F
\* exactly when, in mode 'and', every bit of F is set in T, and in mode 'or', F has no
\* bit or shares one with T; so the empty mask matches every T in both modes.
C4_FilterClassification ==
  last.op = "color" /\ sceneColor.kind = "filter" =>
    LET F == sceneColor.flags
        T == last.flags
        matched == IF filterMode = "and" THEN Bits(F) \subseteq Bits(T)
                   ELSE Bits(F) = {} \/ Bits(F) \cap Bits(T) # {}
    IN /\ last.palette = (IF matched THEN "default" ELSE "unmatched")
       /\ F = 0 => last.palette = "default"

\* the 'or' filter with an empty mask has coloured a flagged transaction
C4_Witness ==
  /\ last.op = "color"
  /\ sceneColor = FilterColor(0)
  /\ filterMode = "or"
  /\ last.flags > 0
  /\ last.palette = "default"

\* the scheduler with the browser's guarantee that a pending frame request and a pending
\* timer are eventually delivered
SpecSchedFair ==
  /\ SpecSched
  /\ WF_vars(\E now \in Nows : Run(now))
  /\ WF_vars(HeartBeat)

\* ---------------------------------------------------------------- C5
\* C5: a tick run(now) with running, a scene and now <= scene.animateUntil + 500 leaves
\* exactly one frame request pending and touches no heartbeat; any other tick leaves no
\* frame request and exactly one heartbeat timer pending; the heartbeat, when it fires,
\* sets running and leaves a frame request pending.
C5_Tick(now) ==
  IF running /\ scene /\ now <= sceneAnimateUntil + 500
  THEN /\ rafPending' = 1
       /\ animationFrameRequest' = "live"
       /\ UNCHANGED <<animationHeartBeat, timeoutPending>>
  ELSE /\ rafPending' = 0
       /\ timeoutPending' = 1
       /\ animationHeartBeat' = "live"

C5_ContinuationRule ==
  [][/\ last'.op = "run" => C5_Tick(last'.now)
     /\ last'.op = "heartbeat" =>
          running' /\ rafPending' = 1 /\ animationFrameRequest' = "live"]_vars

\* the heartbeat of an idle scene has fired and restarted the loop
C5_Witness ==
  /\ last.op = "heartbeat"
  /\ last.beat = 1
  /\ last.raf = 0
  /\ scene
  /\ running
  /\ rafPending = 1
  /\ timeoutPending = 0

\* ---------------------------------------------------------------- C6
C6_Mutated == last.op \in {"setup", "enter", "exit", "replace", "update"} /\ scene

\* C6: when setup, enter, exit, replace or update returns with a scene present, a frame
\* request is pending, and (the browser delivering pending frames) a tick then runs
\* unless the component is torn down first.
C6_RedrawScheduled ==
  /\ [](C6_Mutated => running /\ rafPending = 1 /\ animationFrameRequest = "live")
  /\ (C6_Mutated ~> (last.op = "run" \/ phase = "destroyed"))

\* a mutation made while the scheduler idled on its heartbeat has a frame pending
C6_Witness ==
  /\ C6_Mutated
  /\ last.raf = 0
  /\ last.beat = 1
  /\ rafPending = 1

\* ---------------------------------------------------------------- C7
\* C7: after the context-lost event the component has no frame request pending, is not
\* running and holds no context handle; after the context-restored event it holds the
\* context again with the program and buffer rebuilt and the scheduler started.
C7_ContextLossHandled ==
  /\ last.op = "contextLost" => rafPending = 0 /\ ~running /\ ~gl
  /\ last.op = "contextRestored" =>
       gl /\ ctxProgram /\ ctxBound /\ running /\ rafPending = 1

\* ---------------------------------------------------------------- C8
\* C8: a draw issued by a tick in a restored context is backed by the program, the
\* attribute pointers and vertex data of that context.
C8_DrawAfterRestoreBacked ==
  last.op = "run" /\ ctxState = "restored" /\ Issued(last.gpu, "draw") =>
    ctxProgram /\ ctxPointers /\ ctxData

\* ---------------------------------------------------------------- C9
\* C9: when ngOnDestroy returns, neither a frame request nor a heartbeat timer is pending.
C9_TeardownCancelsBoth ==
  last.op = "ngOnDestroy" => rafPending = 0 /\ timeoutPending = 0

\* teardown of a component that idled on its heartbeat, after a context loss
C9_Witness ==
  /\ last.op = "ngOnDestroy"
  /\ last.beat = 1
  /\ ctxState = "lost"
  /\ timeoutPending = 0
  /\ rafPending = 0

\* ---------------------------------------------------------------- C10
\* C10: a tick emits readyEvent exactly when readyNextFrame was set and scene and gl are
\* present, as the last step of the tick after its draw step, and the emission clears
\* the flag; emissions never outnumber the setup calls that armed the flag.
C10_Tick(ops) ==
  /\ Issued(ops, "ready") <=> (readyNextFrame /\ scene /\ gl)
  /\ Issued(ops, "ready") =>
       /\ ~readyNextFrame'
       /\ ops[1] = "uniform"
       /\ ops[Len(ops)] = "ready"
       /\ Cardinality({i \in 1..Len(ops) : ops[i] = "ready"}) = 1

C10_ReadyOneShot ==
  /\ [][last'.op = "run" => C10_Tick(last'.gpu)]_vars
  /\ [](readyCredit >= 0)

\* two setup calls were answered by one emission, after a draw
C10_Witness ==
  /\ last.op = "run"
  /\ Issued(last.gpu, "draw")
  /\ Issued(last.gpu, "ready")
  /\ readyCredit >= 1
  /\ ~readyNextFrame

\* the search highlight: search-text emissions between the host's scene mutations
NextSearch ==
  \/ NgAfterViewInit
  \/ ResizeCanvas
  \/ \E txs \in SUBSET TxIds : Setup(txs, 0)
  \/ \E txs \in SUBSET TxIds : Enter(txs, 0)
  \/ Exit(0)
  \/ \E txs \in SUBSET TxIds : Replace(txs, 0)
  \/ \E add \in SUBSET TxIds, remove \in SUBSET TxIds : Update(add, remove, 0)
  \/ Clear(0)
  \/ Destroy
  \/ \E text \in SearchTexts : SearchText(text)

SpecSearch == Init /\ [][NextSearch]_vars

\* a transaction list that makes filters available, and the empty one that does not
EmptyOrFlagged == {{}, {TxName[MaxTx]}}

\* the host-facing operations around the construction of the scene, up to the first
\* fault: the inputs Angular delivers before and after the view exists, the host's calls
\* and the pointer handlers
HostOps ==
  \/ NgAfterViewInit
  \/ ResizeCanvas
  \/ \E txs \in EmptyOrFlagged : Setup(txs, 0)
  \/ \E txs \in EmptyOrFlagged : Enter(txs, 0)
  \/ Exit(0)
  \/ \E txs \in EmptyOrFlagged : Replace(txs, 0)
  \/ \E add \in EmptyOrFlagged : Update(add, {}, 0)
  \/ Clear(0)
  \/ Destroy
  \/ \E txid \in MirrorIds : SetMirror(txid)
  \/ SetFilterFlags(filterMode, 1)
  \/ SetHighlightingEnabled
  \/ \E keys \in SUBSET ChangeKeys, txid \in MirrorIds :
        NgOnChanges(keys, txid, 1, filterMode)
  \/ Pointer

NextHost == ~fault /\ HostOps

SpecHost == Init /\ [][NextHost]_vars

\* the frame scheduler with the other callers of start(): the hover handlers, a filter
\* change and setHighlightingEnabled
Starters ==
  \/ \E hit \in Hits : OnPointerMove(TRUE, FALSE, hit)
  \/ OnPointerLeave(FALSE)
  \/ SetFilterFlags(filterMode, 1)
  \/ SetHighlightingEnabled

NextStart ==
  \/ Lifecycle
  \/ Timers
  \/ Context
  \/ \E txs \in EmptyOrFull, until \in Untils : Setup(txs, until)
  \/ Starters

SpecStart == Init /\ [][NextStart]_vars

\* the component's life from construction to teardown and after: the scheduler, setup,
\* and the search-text emissions of the application-wide state service
NextTeardown ==
  \/ Lifecycle
  \/ Timers
  \/ \E txs \in EmptyOrFull, until \in Untils : Setup(txs, until)
  \/ \E text \in SearchTexts : SearchText(text)

SpecTeardown == Init /\ [][NextTeardown]_vars

\* the pointer alone: the pointer handlers and click-away over a scene the host sets up
\* and clears, with no mirror, so that every hover flag is the pointer's
NextHover ==
  \/ NgAfterViewInit
  \/ ResizeCanvas
  \/ \E txs \in SUBSET TxIds : Setup(txs, 0)
  \/ Clear(0)
  \/ Pointer

SpecHover == Init /\ [][NextHover]_vars

\* ---------------------------------------------------------------- C11
\* a frame has been requested by the step and the scheduler is running
RedrawRequested == running' /\ rafPending' = 1 /\ animationFrameRequest' = "live"

\* a pointer-move on the canvas that hits a while nothing is selected and a is not the preview
C11_Move(a) ==
  /\ ~Truthy(selectedTx)
  /\ hoverTx # a
  /\ last'.op = "move"
  /\ last'.hit = a

\* a non-touch pointer-leave while a is hovered and nothing is selected
C11_Leave(a) ==
  /\ ~Truthy(selectedTx)
  /\ hoverTx = a
  /\ last'.op = "leave"

C12_Updated ==
  \/ last'.op = "searchText"
  \/ last'.op \in {"setup", "enter", "exit", "replace", "update", "clear"} /\ scene

\* the one call the claim lets end without the new highlight: the search-text change
\* that unset the highlight of another transaction
C12_Switching ==
  last'.op = "searchText" /\ Truthy(highlightTx) /\ highlightTx # searchText'

\* C12: after every updateSearchHighlight call, (i) a previously highlighted transaction
\* whose id differs from the search text is no longer highlighted, and (ii) a search text
\* that is a 64-character id present in the scene's index is highlighted, at the latest
\* after the scene mutation that follows the change of the search text.
C12_SearchHighlight ==
  [][C12_Updated =>
       /\ (Truthy(highlightTx) /\ highlightTx # searchText' => highlightTx \notin sceneHighlight')
       /\ (scene' /\ searchText' \in TxIds /\ searchText' \in sceneTxs' /\ ~C12_Switching
              => searchText' \in sceneHighlight')]_vars

\* ---------------------------------------------------------------- C13
\* the host-facing operations and the pointer handlers, by the name they leave in last.op
C13_HostOps ==
  {"setup", "enter", "exit", "replace", "update", "clear", "destroy", "setMirror",
   "ngOnChanges", "setHighlightingEnabled", "setFilterFlags",
   "commit", "click", "pointerup", "move", "leave", "leaveTouch"}

\* C13: a host-facing operation or pointer handler invoked while the scene is absent
\* neither faults nor changes any scene-related state.
C13_TotalWithoutScene ==
  [][~scene /\ last'.op \in C13_HostOps => ~fault' /\ UNCHANGED sceneVars]_vars

\* ---------------------------------------------------------------- C14
\* setMirror(b) has just been called on an existing scene
C14_Called(b) == scene /\ last'.op = "setMirror" /\ last'.hit = b

C15_CurrentPreview == IF Truthy(selectedTx) THEN selectedTx ELSE hoverTx

\* C15: a document click outside the root element leaves hoverTx and selectedTx empty,
\* unsets the hover flag of the current preview and emits a hover event carrying none; a
\* click inside the root element changes none of them.
C15_ClickAway ==
  [][/\ last'.op = "clickAway" =>
          /\ hoverTx' = Null
          /\ selectedTx' = Null
          /\ hoverEvent' = Null
          /\ (Truthy(C15_CurrentPreview) => C15_CurrentPreview \notin sceneHover')
     /\ last'.op = "clickInside" =>
          UNCHANGED <<hoverTx, selectedTx, hoverEvent, sceneHover>>]_vars

\* an outside click has just cleared a selection whose hover flag was set
C15_Witness ==
  /\ last.op = "clickAway"
  /\ last.sel \in sceneTxs
  /\ selectedTx = Null
  /\ hoverTx = Null
  /\ hoverEvent = Null
  /\ last.sel \notin sceneHover
  /\ rafPending = 1

\* ---------------------------------------------------------------- C16
\* a tap (touch pointer-up on the canvas) has just run setPreviewTx as a commit
C16_Tapped == last'.op = "commit"

\* C16: a tap that hits a transaction other than the selected one leaves it selected and
\* hoverTx empty, a tap with no hit leaves selectedTx empty, and hoverTx and selectedTx
\* are never set to different transactions.
C16_CommitClearsHover ==
  /\ [][C16_Tapped =>
          /\ (last'.hit \in TxIds /\ last'.hit # selectedTx
                 => selectedTx' = last'.hit /\ ~Truthy(hoverTx'))
          /\ (last'.hit = Null => ~Truthy(selectedTx'))]_vars
  /\ [](Truthy(hoverTx) /\ Truthy(selectedTx) => hoverTx = selectedTx)

\* ---------------------------------------------------------------- C17
\* C17: at most one animation-frame request and at most one heartbeat timer are pending
\* in every reachable state, and a step that requests a frame leaves exactly the request
\* the component's handle names.
C17_NoDuplicateRequests ==
  /\ rafPending <= 1
  /\ timeoutPending <= 1
  /\ (rafPending = 1 => animationFrameRequest = "live")
  /\ (timeoutPending = 1 => animationHeartBeat = "live")

\* a hover change called start() while a frame request and a heartbeat were pending
C17_Witness ==
  /\ last.op = "move"
  /\ last.hit \in TxIds
  /\ last.hov # last.hit
  /\ ~Truthy(last.sel)
  /\ last.raf = 1
  /\ last.beat = 1
  /\ rafPending = 1
  /\ timeoutPending = 1

\* ---------------------------------------------------------------- C18
\* C18: once ngOnDestroy has run, no frame request and no heartbeat timer is pending, and
\* neither a tick nor a heartbeat callback runs.
C18_NothingAfterTeardown ==
  phase = "destroyed" =>
    /\ rafPending = 0
    /\ timeoutPending = 0
    /\ last.op \notin {"run", "heartbeat"}

\* ---------------------------------------------------------------- C19
\* the GPU calls among the operations of a tick
C19_Gpu(ops) == SelectSeq(ops, LAMBDA o : o # "ready")

\* C19: a tick issues GPU calls or emits ready only with both the scene and gl present
\* and never while the context is lost; a tick that draws issues the uniform upload,
\* then, only if the buffer was dirty, the attribute re-binding and the buffer upload,
\* then the draw, and leaves the buffer clean.
C19_NoStaleGpuUse ==
  [][last'.op = "run" =>
       LET ops == last'.gpu
       IN /\ (ops # NoOps => scene /\ gl)
          /\ (ctxState = "lost" => ops = NoOps)
          /\ (Issued(ops, "draw") =>
                /\ C19_Gpu(ops) = IF dirty THEN <<"uniform", "pointers", "bufferData", "draw">>
                                            ELSE <<"uniform", "draw">>
                /\ ~dirty')]_vars

\* ---------------------------------------------------------------- C20
\* neither teardown nor a context loss has occurred
C20_Alive == phase # "destroyed" /\ ctxState \notin {"lost", "restored"}

\* C20: once start() has been called, and as long as neither a context loss nor teardown
\* has occurred, a frame request or a heartbeat timer is pending in every state, and under
\* fair firing of the callbacks another tick always follows.
C20_NeverDormant ==
  /\ [](running /\ C20_Alive => rafPending + timeoutPending >= 1)
  /\ ((running /\ C20_Alive /\ last.op # "run") ~> (last.op = "run" \/ ~C20_Alive))

\* the heartbeat has just restarted an idle scheduler
C20_Witness ==
  /\ last.op = "heartbeat"
  /\ last.raf = 0
  /\ last.beat = 1
  /\ rafPending = 1
  /\ running
  /\ C20_Alive

\* ---------------------------------------------------------------- C21
\* the preview of the interaction layer: the selection if there is one, else the hover
C21_CurrentPreview == IF Truthy(selectedTx) THEN selectedTx ELSE hoverTx

\* C21: with the pointer handlers and click-away the only callers of setHover, the set
\* of transactions whose hover flag is set is empty or exactly the current preview, so
\* at most one transaction carries the pointer's hover highlight.
C21_OnePointerHighlight ==
  /\ sceneHover = {} \/ sceneHover = {C21_CurrentPreview}
  /\ Cardinality(sceneHover) <= 1

\* a tap moved the highlight from the hovered transaction to the one it selected
C21_Witness ==
  /\ last.op = "commit"
  /\ last.hov \in TxIds
  /\ selectedTx \in TxIds
  /\ last.hov # selectedTx
  /\ ~Truthy(last.sel)
  /\ sceneHover = {selectedTx}

\* ---------------------------------------------------------------- C22
\* C22: once a hover event has been emitted, the id carried by the most recent one is the
\* id of hoverTx, or none when hoverTx is none.
C22_HoverEventInStep ==
  hoverEvent # "nothing" =>
    hoverEvent = (IF Truthy(hoverTx) THEN hoverTx ELSE Null)

\* a second tap on the selection returned it to the hover slot, which held another
\* transaction, and the notification followed
C22_Witness ==
  /\ last.op = "commit"
  /\ last.sel \in TxIds
  /\ last.hit = last.sel
  /\ last.hov \in TxIds
  /\ last.hov # last.sel
  /\ hoverTx = last.sel
  /\ hoverEvent = hoverTx
  /\ ~Truthy(selectedTx)

====
